---- MODULE Spec2Model ----
(***************************************************************************)
(* PipelineQuantizationConfig (src/diffusers/quantizers/__init__.py):      *)
(* construction with its validation, and _resolve_quant_config.            *)
(*                                                                         *)
(* Python values are encoded with one shape per type:                      *)
(*   str | None      a string, None being the string "None"                *)
(*   dict | None     [is_none, items]  items: a set of <<key, value>>      *)
(*   list | None     [is_none, elems]  elems: a sequence of strings        *)
(*   mapping | None  [is_none, entries] entries: a function from module    *)
(*                   names to [quant_backend, quant_kwargs]                *)
(* A key that a mapping entry does not have reads as None, which is what   *)
(* config.get(key) returns for it.                                         *)
(***************************************************************************)
EXTENDS Integers, Sequences, FiniteSets, TLC

VARIABLES
    transformers_available, \* what is_transformers_available() returns
    pc,                     \* "new", "constructed" or "failed"
    self,                   \* the fields of the PipelineQuantizationConfig
    init_error,             \* the error __init__ raised, or NoError
    call,                   \* the arguments of the last _resolve_quant_config
    result,                 \* what that call returned or raised
    remembered              \* an earlier call and its result

vars == <<transformers_available, pc, self, init_error, call, result, remembered>>

\* ------------------------------------------------------------------ bounds
MaxMappingEntries == 2
MaxModulesToQuantize == 1

\* ------------------------------------------------------------ Python values
None == "None"

NoneDict == [is_none |-> TRUE, items |-> {}]
Dict(items) == [is_none |-> FALSE, items |-> items]
NoneList == [is_none |-> TRUE, elems |-> <<>>]
List(elems) == [is_none |-> FALSE, elems |-> elems]
NoneMapping == [is_none |-> TRUE, entries |-> [m \in {} |-> 0]]
Mapping(entries) == [is_none |-> FALSE, entries |-> entries]

\* bool(x) of Python for the types above
TruthyStr(s) == s # None /\ s # ""
TruthyDict(d) == ~d.is_none /\ d.items # {}
TruthyList(l) == ~l.is_none /\ Len(l.elems) > 0
TruthyMapping(mp) == ~mp.is_none /\ DOMAIN mp.entries # {}

InList(x, l) == \E i \in 1..Len(l.elems) : l.elems[i] = x

\* -------------------------------------------------------------- registries
\* AUTO_QUANTIZATION_CONFIG_MAPPING of diffusers: backend name -> config class,
\* a class being its name and the parameter names of its __init__.
QUANT_CONFIG_MAPPING_DIFFUSERS ==
    [b \in {"bnb", "quanto", "gguf"} |->
        CASE b = "bnb" -> [cls |-> "diffusers.BnbConfig", params |-> {"bits"}]
          [] b = "quanto" -> [cls |-> "diffusers.QuantoConfig", params |-> {"bits"}]
          [] b = "gguf" -> [cls |-> "diffusers.GGUFConfig", params |-> {"bits"}]]

\* AUTO_QUANTIZATION_CONFIG_MAPPING of transformers
QUANT_CONFIG_MAPPING_TRANSFORMERS ==
    [b \in {"bnb", "quanto", "awq"} |->
        CASE b = "bnb" -> [cls |-> "transformers.BnbConfig", params |-> {"bits"}]
          [] b = "quanto" ->
               [cls |-> "transformers.QuantoConfig", params |-> {"bits", "activations"}]
          [] b = "awq" -> [cls |-> "transformers.AwqConfig", params |-> {"bits"}]]

NoRegistry == [b \in {} |-> [cls |-> "", params |-> {}]]

\* ------------------------------------------------------------------ inputs
ModuleNames == {"unet", "vae", "text_encoder"}
BackendNames == {"bnb", "quanto", "gguf", "awq", "bogus"}
KwargsValues == {{}, {<<"bits", 8>>}}

\* module_name of _resolve_quant_config defaults to None
ResolveModuleArgs == ModuleNames \cup {None}

QuantBackendArgs == BackendNames \cup {None, ""}
QuantKwargsArgs == {NoneDict} \cup {Dict(k) : k \in KwargsValues}

\* lists of at most n distinct elements of S
SeqsNoDup(S, n) ==
    {s \in UNION {[1..k -> S] : k \in 0..n} :
        \A i, j \in 1..Len(s) : i # j => s[i] # s[j]}

ModulesToQuantizeArgs ==
    {NoneList} \cup {List(s) : s \in SeqsNoDup(ModuleNames, MaxModulesToQuantize)}

MappingEntries ==
    [quant_backend : BackendNames \cup {None},
     quant_kwargs : {NoneDict, Dict({<<"bits", 8>>})}]

MappingArgs ==
    {NoneMapping} \cup
    {Mapping(e) : e \in UNION {[D -> MappingEntries] :
                     D \in {X \in SUBSET ModuleNames : Cardinality(X) <= MaxMappingEntries}}}

\* ------------------------------------------------------------------ errors
NoError == "no error"
ErrMissingBackend == "ValueError: Must provide a quant_backend when not providing a mapping."
ErrEmptyConfiguration == "ValueError: Both quant_kwargs and mapping cannot be None."
ErrSignatureMismatch == "ValueError: The signatures of the __init__ methods do not match."
ErrBackendNotFound == "ValueError: Provided quant_backend was not found."
ErrTransformersUnavailable == "ValueError: Transformers library is not available."
ErrKeyError == "KeyError"

\* ------------------------------------------------------------- construction
\* __init__ up to post_init's is_granular: the fields as assigned from the
\* arguments, quant_kwargs normalised by `quant_kwargs or {}`.
InitFields(quant_backend, quant_kwargs, modules_to_quantize, mapping) ==
    [quant_backend |-> quant_backend,
     quant_kwargs |-> IF TruthyDict(quant_kwargs) THEN quant_kwargs ELSE Dict({}),
     modules_to_quantize |-> modules_to_quantize,
     mapping |-> mapping,
     is_granular |-> ~mapping.is_none]

\* The transformers registry as the validators see it: None (not imported)
\* when the library is unavailable.
ImportedTransformersMapping(available) ==
    IF available
    THEN [is_none |-> FALSE, registry |-> QUANT_CONFIG_MAPPING_TRANSFORMERS]
    ELSE [is_none |-> TRUE, registry |-> NoRegistry]

\* a registry object is truthy when it is not None and not empty
TruthyRegistry(r) == ~r.is_none /\ DOMAIN r.registry # {}

\* variant that looks the name up in the diffusers registry alone
CheckBackendAvailabilityDiffusersOnly(quant_backend, available) ==
    IF quant_backend \notin DOMAIN QUANT_CONFIG_MAPPING_DIFFUSERS
    THEN ErrBackendNotFound
    ELSE NoError

\* _check_backend_availability: the name must be in the diffusers registry and,
\* when the transformers registry is there and non-empty, in that one too
CheckBackendAvailability(quant_backend, available) ==
    LET transformers == ImportedTransformersMapping(available)
    IN IF \/ /\ TruthyRegistry(transformers)
             /\ quant_backend \notin DOMAIN transformers.registry
          \/ quant_backend \notin DOMAIN QUANT_CONFIG_MAPPING_DIFFUSERS
       THEN ErrBackendNotFound
       ELSE NoError

\* The availability check, then the comparison of the parameter names of the
\* two __init__ (inspect.signature without "self"); the transformers side is
\* None when that registry is None.
ValidateInitKwargsInBackends(quant_backend, available) ==
    LET transformers == ImportedTransformersMapping(available)
        found == CheckBackendAvailability(quant_backend, available)
        init_kwargs_transformers ==
            IF ~transformers.is_none
            THEN [is_none |-> FALSE,
                  names |-> transformers.registry[quant_backend].params]
            ELSE [is_none |-> TRUE, names |-> {}]
        init_kwargs_diffusers ==
            [is_none |-> FALSE,
             names |-> QUANT_CONFIG_MAPPING_DIFFUSERS[quant_backend].params]
    IN IF found # NoError THEN found
       ELSE IF ~transformers.is_none /\ quant_backend \notin DOMAIN transformers.registry
       THEN ErrKeyError
       ELSE IF init_kwargs_transformers # init_kwargs_diffusers
       THEN ErrSignatureMismatch
       ELSE NoError

\* every entry's config.get("quant_backend") goes through the availability
\* check; all failures raise the same kind of error
ValidateMappingArgs(mapping, available) ==
    IF \E module_name \in DOMAIN mapping.entries :
          CheckBackendAvailability(mapping.entries[module_name].quant_backend,
                                   available) # NoError
    THEN ErrBackendNotFound
    ELSE NoError

\* variant without the empty-configuration check
ValidateInitArgsNoKwargsCheck(fields, available) ==
    IF ~fields.is_granular /\ ~TruthyStr(fields.quant_backend)
    THEN ErrMissingBackend
    ELSE LET backends == IF fields.quant_backend # None
                         THEN ValidateInitKwargsInBackends(fields.quant_backend, available)
                         ELSE NoError
         IN IF backends # NoError THEN backends
            ELSE IF ~fields.mapping.is_none
            THEN ValidateMappingArgs(fields.mapping, available)
            ELSE NoError

\* _validate_init_args: the first check that fails raises
ValidateInitArgs(fields, available) ==
    IF ~fields.is_granular /\ ~TruthyStr(fields.quant_backend)
    THEN ErrMissingBackend
    ELSE IF ~TruthyDict(fields.quant_kwargs) /\ ~TruthyMapping(fields.mapping)
    THEN ErrEmptyConfiguration
    ELSE LET backends == IF fields.quant_backend # None
                         THEN ValidateInitKwargsInBackends(fields.quant_backend, available)
                         ELSE NoError
         IN IF backends # NoError THEN backends
            ELSE IF ~fields.mapping.is_none
            THEN ValidateMappingArgs(fields.mapping, available)
            ELSE NoError

\* --------------------------------------------------------------- resolution
\* A config instance is the class it was built from and the keyword arguments
\* it was built with; the classes' constructors are outside this file and are
\* taken to accept what they are given.
NoneConfig == [is_none |-> TRUE, cls |-> "", kwargs |-> {}]
Instance(config_cls, kwargs) == [is_none |-> FALSE, cls |-> config_cls.cls, kwargs |-> kwargs]

NoResult == [kind |-> "none", exc |-> "", value |-> NoneConfig]
Return(value) == [kind |-> "return", exc |-> "", value |-> value]
Raise(exc) == [kind |-> "raise", exc |-> exc, value |-> NoneConfig]

\* AUTO_QUANTIZATION_CONFIG_MAPPING[quant_backend](**quant_kwargs)
Instantiate(registry, quant_backend, quant_kwargs) ==
    IF quant_backend \notin DOMAIN registry
    THEN Raise(ErrKeyError)
    ELSE Return(Instance(registry[quant_backend], quant_kwargs))

\* variant that reads the diffusers registry when transformers is unavailable
SelectRegistryFallback(is_diffusers, available) ==
    IF is_diffusers \/ ~available
    THEN [error |-> NoError, registry |-> QUANT_CONFIG_MAPPING_DIFFUSERS]
    ELSE [error |-> NoError, registry |-> QUANT_CONFIG_MAPPING_TRANSFORMERS]

\* the registry of the source asked for
SelectRegistry(is_diffusers, available) ==
    IF is_diffusers
    THEN [error |-> NoError, registry |-> QUANT_CONFIG_MAPPING_DIFFUSERS]
    ELSE IF available
    THEN [error |-> NoError, registry |-> QUANT_CONFIG_MAPPING_TRANSFORMERS]
    ELSE [error |-> ErrTransformersUnavailable, registry |-> NoRegistry]

\* variant that builds the entry's class from the plan's quant_kwargs
GranularConfigDefaultKwargs(plan, registry, module_name) ==
    Instantiate(registry, plan.mapping.entries[module_name].quant_backend,
                plan.quant_kwargs.items)

\* the granular case: the entry of mapping for module_name
GranularConfig(plan, registry, module_name) ==
    LET config == plan.mapping.entries[module_name]
        quant_backend == config.quant_backend
        quant_kwargs == IF config.quant_kwargs.is_none THEN {} ELSE config.quant_kwargs.items
    IN Instantiate(registry, quant_backend, quant_kwargs)

\* variant whose quantize-all branch does not ask for a non-granular plan
ShouldQuantizeIgnoringGranular(plan, module_name) ==
    IF TruthyList(plan.modules_to_quantize) /\ InList(module_name, plan.modules_to_quantize)
    THEN TRUE
    ELSE ~TruthyList(plan.modules_to_quantize)

\* the global config case: should_quantize
ShouldQuantize(plan, module_name) ==
    IF TruthyList(plan.modules_to_quantize) /\ InList(module_name, plan.modules_to_quantize)
    THEN TRUE
    ELSE ~plan.is_granular /\ ~TruthyList(plan.modules_to_quantize)

\* the global config case: the plan's own backend and kwargs
GlobalConfig(plan, registry) ==
    Instantiate(registry, plan.quant_backend, plan.quant_kwargs.items)

\* _resolve_quant_config, from the registry selection to the fallback None
ResolveQuantConfig(plan, is_diffusers, module_name, available) ==
    LET selected == SelectRegistry(is_diffusers, available)
    IN IF selected.error # NoError
       THEN Raise(selected.error)
       ELSE IF plan.is_granular /\ module_name \in DOMAIN plan.mapping.entries
       THEN GranularConfig(plan, selected.registry, module_name)
       ELSE IF ShouldQuantize(plan, module_name)
       THEN GlobalConfig(plan, selected.registry)
       ELSE Return(NoneConfig)

\* ------------------------------------------------------------ state machine
NoFields == InitFields(None, NoneDict, NoneList, NoneMapping)
NoCall == [is_diffusers |-> TRUE, module_name |-> ""]
NothingRemembered == [state |-> "unset", call |-> NoCall, result |-> NoResult]

Init ==
    /\ transformers_available \in BOOLEAN
    /\ pc = "new"
    /\ self = NoFields
    /\ init_error = NoError
    /\ call = NoCall
    /\ result = NoResult
    /\ remembered = NothingRemembered

\* PipelineQuantizationConfig(quant_backend, quant_kwargs, modules_to_quantize, mapping)
Construct ==
    /\ pc = "new"
    /\ \E quant_backend \in QuantBackendArgs, quant_kwargs \in QuantKwargsArgs,
          modules_to_quantize \in ModulesToQuantizeArgs, mapping \in MappingArgs :
        LET fields == InitFields(quant_backend, quant_kwargs, modules_to_quantize, mapping)
            error == ValidateInitArgs(fields, transformers_available)
        IN /\ self' = fields
           /\ init_error' = error
           /\ pc' = IF error = NoError THEN "constructed" ELSE "failed"
           /\ UNCHANGED <<transformers_available, call, result, remembered>>

\* History of the calls: one earlier call is kept with what it gave, and whether
\* a different call has been made since.
Remember(c, r) ==
    IF remembered.state = "unset"
    THEN remembered' \in {remembered, [state |-> "fresh", call |-> c, result |-> r]}
    ELSE remembered' = [remembered EXCEPT
                          !.state = IF c # remembered.call THEN "intervened" ELSE @]

\* variant that takes a module it quantized out of modules_to_quantize
ResolveConsuming ==
    /\ pc = "constructed"
    /\ \E is_diffusers \in BOOLEAN, module_name \in ResolveModuleArgs :
        LET c == [is_diffusers |-> is_diffusers, module_name |-> module_name]
            r == ResolveQuantConfig(self, is_diffusers, module_name, transformers_available)
        IN /\ call' = c
           /\ result' = r
           /\ Remember(c, r)
           /\ self' = IF r.kind = "return" /\ ~r.value.is_none /\ ~self.modules_to_quantize.is_none
                      THEN [self EXCEPT !.modules_to_quantize.elems =
                               SelectSeq(@, LAMBDA m : m # module_name)]
                      ELSE self
           /\ UNCHANGED <<transformers_available, pc, init_error>>

\* plan._resolve_quant_config(is_diffusers, module_name)
Resolve ==
    /\ pc = "constructed"
    /\ \E is_diffusers \in BOOLEAN, module_name \in ResolveModuleArgs :
        LET c == [is_diffusers |-> is_diffusers, module_name |-> module_name]
            r == ResolveQuantConfig(self, is_diffusers, module_name, transformers_available)
        IN /\ call' = c
           /\ result' = r
           /\ Remember(c, r)
           /\ UNCHANGED <<transformers_available, pc, self, init_error>>

Next == Construct \/ Resolve

Spec == Init /\ [][Next]_vars

\* ------------------------------------------------------------------ claims
Constructed == pc = "constructed"
Failed == pc = "failed"
ConstructionRan == pc # "new"
Resolved == pc = "constructed" /\ result.kind # "none"

\* the registry a resolve call reads, when the call gets as far as reading one
RegistryOf(c) ==
    IF c.is_diffusers THEN QUANT_CONFIG_MAPPING_DIFFUSERS ELSE QUANT_CONFIG_MAPPING_TRANSFORMERS
RegistrySelected(c) == c.is_diffusers \/ transformers_available

\* the instance of the class registered under backend, built from kwargs
ConfigOf(registry, backend, kwargs) ==
    [is_none |-> FALSE, cls |-> registry[backend].cls, kwargs |-> kwargs]

\* every backend name the arguments name: the top-level one when given, and
\* the one of each entry of mapping (None for an entry without the key)
ReferencedBackends ==
    (IF self.quant_backend # None THEN {self.quant_backend} ELSE {})
    \cup {self.mapping.entries[m].quant_backend : m \in DOMAIN self.mapping.entries}

Unregistered(b) ==
    \/ b \notin DOMAIN QUANT_CONFIG_MAPPING_DIFFUSERS
    \/ transformers_available /\ b \notin DOMAIN QUANT_CONFIG_MAPPING_TRANSFORMERS

\* C1: with mapping None, construction fails whenever quant_backend is unset
\* or quant_kwargs is empty or absent, whatever modules_to_quantize is; the
\* error is the missing-backend or the empty-configuration one.
C1_NonGranularNeedsBackendAndKwargs ==
    (/\ ConstructionRan
     /\ self.mapping.is_none
     /\ ~TruthyStr(self.quant_backend) \/ ~TruthyDict(self.quant_kwargs))
    => /\ Failed
       /\ init_error \in {ErrMissingBackend, ErrEmptyConfiguration}
       /\ ~TruthyStr(self.quant_backend) => init_error = ErrMissingBackend

C1_Witness ==
    /\ Failed
    /\ self.mapping.is_none
    /\ self.quant_backend = None
    /\ TruthyDict(self.quant_kwargs)
    /\ TruthyList(self.modules_to_quantize)
    /\ init_error = ErrMissingBackend

\* C2: construction with mapping = {} fails, for every quant_backend,
\* quant_kwargs and modules_to_quantize, so that a constructed granular plan
\* has a non-empty mapping.
C2_EmptyMappingFails ==
    (ConstructionRan /\ ~self.mapping.is_none /\ DOMAIN self.mapping.entries = {})
    => Failed

\* C3 as stated: construction fails with the unknown-backend error whenever a
\* referenced backend name is absent from the diffusers registry, or from the
\* transformers registry while transformers is available; after a successful
\* construction every referenced name is registered.
C3_UnknownBackendErrorAlways ==
    /\ (ConstructionRan /\ \E b \in ReferencedBackends : Unregistered(b))
       => (Failed /\ init_error = ErrBackendNotFound)
    /\ Constructed => \A b \in ReferencedBackends : ~Unregistered(b)

\* a check that _validate_init_args makes before it reaches the unregistered
\* name has raised
EarlierCheckRaised ==
    \/ /\ init_error = ErrMissingBackend
       /\ ~self.is_granular /\ ~TruthyStr(self.quant_backend)
    \/ /\ init_error = ErrEmptyConfiguration
       /\ ~TruthyDict(self.quant_kwargs) /\ ~TruthyMapping(self.mapping)
    \/ /\ init_error = ErrSignatureMismatch
       /\ self.quant_backend # None /\ ~Unregistered(self.quant_backend)

\* C3 amended: construction fails whenever a referenced backend name is absent
\* from the diffusers registry, or from the transformers registry while
\* transformers is available; the error is the unknown-backend one unless the
\* missing-backend check, the empty-configuration check or the signature check
\* of a registered top-level quant_backend raised first. After a successful
\* construction every referenced name is registered.
C3_UnregisteredBackendFails ==
    /\ (ConstructionRan /\ \E b \in ReferencedBackends : Unregistered(b))
       => (Failed /\ (init_error = ErrBackendNotFound \/ EarlierCheckRaised))
    /\ Constructed => \A b \in ReferencedBackends : ~Unregistered(b)

C3_Witness ==
    /\ Failed
    /\ init_error = ErrBackendNotFound
    /\ self.quant_backend = "bnb"
    /\ \E m \in DOMAIN self.mapping.entries : self.mapping.entries[m].quant_backend = None
    /\ \E m \in DOMAIN self.mapping.entries : self.mapping.entries[m].quant_backend = "bnb"

\* the top-level quant_backend was given and passed the availability check
ReachedSignatureCheck ==
    /\ ConstructionRan
    /\ self.quant_backend # None
    /\ init_error \notin {ErrMissingBackend, ErrEmptyConfiguration}
    /\ ~Unregistered(self.quant_backend)

\* C4: once the top-level quant_backend has passed the availability check,
\* the signature-mismatch error is raised if and only if transformers is
\* available and the parameter names of the two classes differ; without
\* transformers a non-granular plan with a diffusers-registered backend and
\* non-empty quant_kwargs constructs.
C4_SignatureMismatchOnlyAcrossRegistries ==
    ReachedSignatureCheck
    => /\ (init_error = ErrSignatureMismatch) <=>
             (/\ transformers_available
              /\ QUANT_CONFIG_MAPPING_TRANSFORMERS[self.quant_backend].params
                   # QUANT_CONFIG_MAPPING_DIFFUSERS[self.quant_backend].params)
       /\ (~transformers_available /\ ~self.is_granular) => Constructed

\* C5: on a constructed granular plan, resolving a module that is a key of
\* mapping (from a registry that is available) returns an instance of the
\* class registered under that entry's quant_backend, built from that entry's
\* quant_kwargs, empty when the entry has none; the top-level quant_backend,
\* quant_kwargs and modules_to_quantize play no part.
C5_GranularEntryTakesPrecedence ==
    (/\ Resolved
     /\ RegistrySelected(call)
     /\ self.is_granular
     /\ call.module_name \in DOMAIN self.mapping.entries)
    => LET entry == self.mapping.entries[call.module_name]
       IN /\ entry.quant_backend \in DOMAIN RegistryOf(call)
          /\ result = Return(ConfigOf(RegistryOf(call), entry.quant_backend,
                                      IF entry.quant_kwargs.is_none THEN {}
                                      ELSE entry.quant_kwargs.items))

C5_Witness ==
    /\ Resolved
    /\ self.quant_backend = "bnb"
    /\ self.quant_kwargs.items # {}
    /\ InList(call.module_name, self.modules_to_quantize)
    /\ call.module_name \in DOMAIN self.mapping.entries
    /\ self.mapping.entries[call.module_name].quant_backend = "quanto"
    /\ self.mapping.entries[call.module_name].quant_kwargs.is_none
    /\ result.kind = "return"
    /\ result.value.kwargs = {}

\* C6: when a modules_to_quantize list is supplied (the empty list included)
\* and the module has no entry in mapping, resolving returns a config of the
\* top-level quant_backend built from the plan's quant_kwargs if the module is
\* in the list, and None if it is not.
C6_FilterDecidesDefaultBackend ==
    (/\ Resolved
     /\ RegistrySelected(call)
     /\ ~self.modules_to_quantize.is_none
     /\ call.module_name \notin DOMAIN self.mapping.entries)
    => IF InList(call.module_name, self.modules_to_quantize)
       THEN /\ self.quant_backend \in DOMAIN RegistryOf(call)
            /\ result = Return(ConfigOf(RegistryOf(call), self.quant_backend,
                                        self.quant_kwargs.items))
       ELSE result = Return(NoneConfig)

\* C7: with modules_to_quantize None, resolving (from a registry that is
\* available) returns a config of the plan's quant_backend for every module
\* on a non-granular plan, and None for every module that is not a key of
\* mapping on a granular plan, also when the top-level quant_backend and
\* quant_kwargs are set.
C7_NoFilterQuantizeAllOrNone ==
    (/\ Resolved
     /\ RegistrySelected(call)
     /\ self.modules_to_quantize.is_none)
    => /\ ~self.is_granular =>
            /\ self.quant_backend \in DOMAIN RegistryOf(call)
            /\ result = Return(ConfigOf(RegistryOf(call), self.quant_backend,
                                        self.quant_kwargs.items))
       /\ (self.is_granular /\ call.module_name \notin DOMAIN self.mapping.entries)
            => result = Return(NoneConfig)

C7_Witness ==
    /\ Resolved
    /\ self.modules_to_quantize.is_none
    /\ self.is_granular
    /\ DOMAIN self.mapping.entries # {}
    /\ call.module_name \notin DOMAIN self.mapping.entries
    /\ self.quant_backend = "bnb"
    /\ self.quant_kwargs.items # {}
    /\ result = Return(NoneConfig)

\* C8: resolving with is_diffusers = False while transformers is unavailable
\* raises the availability error, for every module and every plan; it returns
\* neither None nor a config.
C8_TransformersSourceUnavailableRaises ==
    (Resolved /\ ~call.is_diffusers /\ ~transformers_available)
    => result = Raise(ErrTransformersUnavailable)

C8_Witness ==
    /\ Resolved
    /\ ~transformers_available
    /\ ~call.is_diffusers
    /\ call.module_name \notin DOMAIN self.mapping.entries
    /\ self.modules_to_quantize.is_none
    /\ result = Raise(ErrTransformersUnavailable)

\* C9: after construction every step leaves quant_backend, quant_kwargs,
\* modules_to_quantize, mapping and is_granular as they were, and a call with
\* the arguments of an earlier call gives what the earlier call gave, whatever
\* was resolved in between.
C9_ResolveReadOnlyAndRepeatable ==
    [][Constructed =>
         /\ self' = self
         /\ (remembered'.state # "unset" /\ call' = remembered'.call)
              => result' = remembered'.result]_vars

C9_Witness ==
    /\ Resolved
    /\ remembered.state = "intervened"
    /\ call = remembered.call
    /\ result = remembered.result
    /\ result.kind = "return"
    /\ ~result.value.is_none

\* C10: on a constructed plan, resolving with the diffusers source never
\* fails: it returns None or an instance of a class of the diffusers registry.
C10_DiffusersResolveNeverFails ==
    (Resolved /\ call.is_diffusers)
    => /\ result.kind = "return"
       /\ \/ result.value.is_none
          \/ \E b \in DOMAIN QUANT_CONFIG_MAPPING_DIFFUSERS :
                result.value.cls = QUANT_CONFIG_MAPPING_DIFFUSERS[b].cls

====
